---- MODULE Spec2Model ----
(***************************************************************************)
(* Synchronous product TS * BA of tulip.transys.automata                   *)
(* (_ts_ba_sync_prod, _ba_ts_sync_prod, BuchiAutomaton.sync_prod).         *)
(*                                                                         *)
(* The operands are a finite transition system (states, initial states,    *)
(* AP labels of states, transitions with an optional action sub-label) and *)
(* a Buchi automaton (states, initial and accepting states, transitions    *)
(* labelled with a letter of 2^AP).  One behaviour is one call: the type   *)
(* checks and the seeding loop, then one step per iteration of the         *)
(* "while queue" loop, then the return.                                    *)
(***************************************************************************)
EXTENDS Integers, FiniteSets, Sequences, TLC

(* ------------------------------ bounds -------------------------------- *)
\* at most this many transitions in the transition system operand
MaxTsEdges == 3
\* at most this many transitions in the Buchi automaton operand
\* (the automaton of the documented scenario, which has four, is added)
MaxBaTrans == 2
\* acceptance pairs held at a time
MaxPairs == 2
\* acceptance pairs held when remove is called
MaxHeld == 3
\* length of the words given to the acceptance tests
MaxWordLen == 2
\* number of calls of the product made on the same two operands
MaxCalls == 2
\* number of transition triples given to tuple2ba
MaxTupleTrans == 2

TSStates == {"s0", "s1"}
BAStates == {"q0", "q1"}
AP == {"p"}
\* the alphabet of an atomic-proposition based automaton is 2^AP
Letters == SUBSET AP
\* the label of a state is <<L>>, L its value under 'ap', or NoLabel for
\* a state that was never given an 'ap' label
NoLabel == <<>>
Labels == {NoLabel} \cup {<<L>> : L \in Letters}
\* a transition without action sub-label, and the one action
NoAct == "noact"
Acts == {NoAct, "a"}
\* no state is named by an error
NoState == "nostate"

VARIABLES
    tsInit,      \* fts.states.initial
    tsLabel,     \* the 'ap' label of each fts state (or NoLabel)
    tsTrans,     \* fts.transitions: <<from, to, action>>
    baInit,      \* ba.states.initial
    baAccepting, \* ba.states.accepting
    baTrans,     \* ba.transitions: <<from, to, guard>>
    pc,          \* "idle", "loop" (at "while queue"), "done", "error"
    prodStates,  \* prodts.states
    prodInit,    \* prodts.states.initial
    prodTrans,   \* prodts.transitions: <<from, to, action>>
    preimage,    \* accepting_states_preimage
    queue,       \* queue
    visited,     \* visited
    nexp,        \* number of iterations of the while loop so far
    err,         \* the exception that ended the call
    tsKind,      \* type of the operand passed as transition system
    baKind,      \* type of the operand passed as Buchi automaton
    apBased,     \* buchi_automaton.atomic_proposition_based
    prod_ba,     \* the automaton built by _ba_ts_sync_prod from the product
    baAlphabet,  \* ba.alphabet.math_set
    ids,         \* the objects the call has constructed (0: not constructed)
    earlier,     \* the objects that earlier calls constructed
    ncalls,      \* the calls made so far on the two operands
    pairs,       \* RabinPairs._pairs: the list of (good, bad)
    rcall,       \* the last call made on the RabinPairs object
    before,      \* _pairs as it was when that call was made
    rerr,        \* the exception that call raised, or "none"
    dfa,         \* an automaton made by one of the constructors
    nfa,         \* the automaton returned by dfa2nfa(dfa), if it was called
    fcall,       \* the last call made on dfa or nfa
    fbefore,     \* dfa and nfa as they were when that call was made
    ferr,        \* the exception that call raised, or "none"
    fret,        \* what an acceptance test or conversion returned, or NoRet
    targs,       \* the arguments of a call of tuple2ba
    tba          \* what that call returned or raised, or NoTuple

tsVars == <<tsInit, tsLabel, tsTrans>>
baVars == <<baInit, baAccepting, baTrans, baAlphabet>>
frameVars == <<ids, earlier, ncalls>>
prodVars == <<prodStates, prodInit, prodTrans, preimage>>
kindVars == <<tsKind, baKind, apBased>>
engineVars == <<tsInit, tsLabel, tsTrans, baInit, baAccepting, baTrans, pc,
                prodStates, prodInit, prodTrans, preimage, queue, visited, nexp,
                err, tsKind, baKind, apBased, prod_ba, baAlphabet, frameVars>>
rabinVars == <<pairs, rcall, before, rerr>>
fsaVars == <<dfa, nfa, fcall, fbefore, ferr, fret>>
tupleVars == <<targs, tba>>
vars == <<engineVars, rabinVars, fsaVars, tupleVars>>
\* what a call of the product, of RabinPairs, of an automaton leaves alone
offEngine == <<rabinVars, fsaVars, tupleVars>>
offRabin == <<engineVars, fsaVars, tupleVars>>
offFsa == <<engineVars, rabinVars, tupleVars>>
offTuple == <<engineVars, rabinVars, fsaVars>>

NoErr == [kind |-> "none", state |-> NoState]

\* no automaton: dfa2nfa was not called
NoAut == [class |-> "none", asked |-> FALSE, deterministic |-> FALSE,
          automaton_type |-> "none",
          states |-> {}, initial |-> {}, accepting |-> {}, transitions |-> {}]

\* no call was made yet on an automaton
NoFsaCall == [op |-> "none", on |-> "none", from |-> "", to |-> "", label |-> "",
              word |-> <<>>, suffix |-> <<>>]

\* the call returned nothing to look at: it raised, or it was not one of
\* the acceptance tests and conversions
NoRet == "noreturn"

\* no automaton is at hand
FsaIdle ==
    /\ dfa = NoAut
    /\ nfa = NoAut
    /\ fcall = NoFsaCall
    /\ fbefore = [dfa |-> NoAut, nfa |-> NoAut]
    /\ ferr = "none"
    /\ fret = NoRet

\* tuple2ba was not called
NoTuple == [err |-> "notcalled"]
NoArgs == [S |-> {}]

TupleIdle ==
    /\ targs = NoArgs
    /\ tba = NoTuple

\* no call was made yet on the RabinPairs object
NoCall == [op |-> "none", index |-> 0, good |-> {}, bad |-> {}]

\* the two operands are objects 1 and 2
TsId == 1
BaId == 2
OperandIds == {TsId, BaId}

\* the call has constructed nothing yet
NoIds == [prodts |-> 0, preimage |-> 0, prod_ba |-> 0]

\* no automaton was built from the product
NoBa == [states |-> {}, initial |-> {}, accepting |-> {}, alphabet |-> {},
         transitions |-> {}]

(* ------------------- the labeled-graph substrate ---------------------- *)
\* fts.states.find(s): the list of (state, label) pairs of s: empty when s
\* carries no 'ap' label
StatesFind(s) ==
    IF tsLabel[s] = NoLabel THEN <<>> ELSE << <<s, tsLabel[s][1]>> >>

\* (variant: the guard on the edge is read as a set of propositions that must
\* hold, so that it matches every valuation that includes it)
LabelIsDesired_Subset(guard, desired) == guard \subseteq desired

\* a transition label matches the desired label: the letter on the edge is
\* the desired letter of 2^AP ("desired input letter for BA").  The
\* documented scenario fixes this reading: were a guard matched by every
\* valuation that includes it, q0 -{}-> q0 would be enabled by L(s0) = {p}
\* and (s0,q0) would be product-initial there.
LabelIsDesired(guard, desired) == guard = desired

\* ba.transitions.find([q], desired_label = Sigma_dict)
BaFind(q, Sigma) == {t \in baTrans : t[1] = q /\ LabelIsDesired(t[3], Sigma)}

\* fts.states.post(s)
Post(s) == {t[2] : t \in {u \in tsTrans : u[1] = s}}

\* fts.transitions.find([s], to_states = [next_s], desired_label = 'any')
TsFind(s, next_s) == {t \in tsTrans : t[1] = s /\ t[2] = next_s}

(* ------------------------ _ts_ba_sync_prod ---------------------------- *)
\* convert_ts2ba_label: the value under 'ap' of the first (state, label)
\* pair becomes the value under 'in_alphabet'
convert_ts2ba_label(state_label_dict) == state_label_dict[1][2]

\* (variant: the persistence set of the uncorrected textbook formula)
IsAccepting_Complement(q) == q \notin baAccepting

\* q in ba.states.accepting
IsAccepting(q) == q \in baAccepting

\* (variant: the initial automaton state itself is paired with s0)
SeedSq_InitialState(s0, q0, q) == <<s0, q0>>

\* new_sq0 = (s0, q)
SeedSq(s0, q0, q) == <<s0, q>>

\* (variant: the components are swapped)
NewSq_Swapped(next_s, next_q) == <<next_q, next_s>>

\* new_sq = (next_s, next_q)
NewSq(next_s, next_q) == <<next_s, next_q>>

\* the states made product-initial by the seeding loop over the initial
\* states S0s of the transition system (all of them labeled)
SeedOf(S0s) ==
    UNION {UNION {{SeedSq(s0, q0, t[2]) :
                      t \in BaFind(q0, convert_ts2ba_label(StatesFind(s0)))} :
                  q0 \in baInit} :
           s0 \in S0s}

\* (variant: the label of the current state s is used)
ExpansionSigma_OfSource(s, next_s) == convert_ts2ba_label(StatesFind(s))

\* Sigma_dict of the expansion step for the successor next_s of s
ExpansionSigma(s, next_s) == convert_ts2ba_label(StatesFind(next_s))

\* next_sqs after the successors in P of sq's first component were handled
NextSqs(sq, P) ==
    UNION {{NewSq(next_s, t[2]) : t \in BaFind(sq[2], ExpansionSigma(sq[1], next_s))} :
           next_s \in P}

\* (variant: no transition is added to a state that was expanded before)
NewTrans_SkipVisited(sq, P, vis) ==
    UNION {UNION {{<<sq, NewSq(next_s, t[2]), u[3]>> : u \in TsFind(sq[1], next_s)} :
                  t \in {x \in BaFind(sq[2], ExpansionSigma(sq[1], next_s)) :
                            NewSq(next_s, x[2]) \notin vis}} :
           next_s \in P}

\* (variant: every transition is added without sub-label)
NewTrans_Unlabeled(sq, P, vis) ==
    UNION {UNION {{<<sq, NewSq(next_s, t[2]), NoAct>> : u \in TsFind(sq[1], next_s)} :
                  t \in BaFind(sq[2], ExpansionSigma(sq[1], next_s))} :
           next_s \in P}

\* the transitions added to prodts while the successors in P were handled:
\* one per transition of fts from s to next_s, carrying its sub-label
NewTrans(sq, P, vis) ==
    UNION {UNION {{<<sq, NewSq(next_s, t[2]), u[3]>> : u \in TsFind(sq[1], next_s)} :
                  t \in BaFind(sq[2], ExpansionSigma(sq[1], next_s))} :
           next_s \in P}

\* (variant: the test is made against prodts.states, which new_sq has just
\* joined, so that nothing is pushed)
ShouldQueue_Never(next_sq, vis) == FALSE

\* (variant: the test is dropped)
ShouldQueue_Always(next_sq, vis) == TRUE

\* (variant: the test is made against the queue)
ShouldQueue_UnlessQueued(next_sq, vis) == next_sq \notin queue

\* "if next_sq not in visited": next_sq is pushed to the queue
ShouldQueue(next_sq, vis) == next_sq \notin vis

\* (variant: atomic_proposition_based is not looked at)
EngineCheck_NoApCheck ==
    IF tsKind # "FTS" THEN "TypeError:transition_system"
    ELSE IF baKind # "BA" THEN "TypeError:buchi_automaton"
    ELSE "none"

\* the three checks that open _ts_ba_sync_prod
EngineCheck ==
    IF tsKind # "FTS" THEN "TypeError:transition_system"
    ELSE IF baKind # "BA" THEN "TypeError:buchi_automaton"
    ELSE IF ~apBased THEN "Exception:not_ap_based"
    ELSE "none"

\* BuchiAutomaton.sync_prod dispatches on the type of its operand
DispatchCheck ==
    IF tsKind = "BA" THEN "NotImplementedError"
    ELSE IF tsKind = "FTS" THEN EngineCheck
    ELSE "Exception:ts_or_ba"

Entries == {"_ts_ba_sync_prod", "_ba_ts_sync_prod", "sync_prod"}

CallError(entry) == IF entry = "sync_prod" THEN DispatchCheck ELSE EngineCheck

(* ----------------------------- operands ------------------------------- *)
\* the operands of the documented scenario
ScenarioTsInit == {"s0"}
ScenarioTsLabel == [s \in TSStates |-> IF s = "s0" THEN <<{"p"}>> ELSE <<{}>>]
ScenarioTsTrans == {<<"s0", "s1", NoAct>>, <<"s1", "s0", NoAct>>}
ScenarioBaInit == {"q0"}
ScenarioBaAccepting == {"q1"}
ScenarioBaTrans == {<<"q0", "q1", {"p"}>>, <<"q1", "q0", {}>>,
                    <<"q0", "q0", {}>>, <<"q1", "q1", {"p"}>>}

\* transition relations of a transition system: at most MaxTsEdges
\* transitions, at most one between two given states
TsTransFamily ==
    {T \in SUBSET (TSStates \X TSStates \X Acts) :
        /\ Cardinality(T) <= MaxTsEdges
        /\ \A t, u \in T : (t[1] = u[1] /\ t[2] = u[2]) => t = u}

\* transition relations of a Buchi automaton
BaTransFamily ==
    {T \in SUBSET (BAStates \X BAStates \X Letters) : Cardinality(T) <= MaxBaTrans}
    \cup {ScenarioBaTrans}

Init ==
    /\ tsInit \in {{"s0"}, {"s0", "s1"}}
    /\ tsLabel \in [TSStates -> Labels]
    /\ tsTrans \in TsTransFamily
    /\ baInit \in {{"q0"}, {"q0", "q1"}}
    /\ baAccepting \in SUBSET BAStates
    /\ baTrans \in BaTransFamily
    /\ tsKind \in {"FTS", "BA", "other"}
    /\ baKind \in {"BA", "other"}
    /\ apBased \in BOOLEAN
    \* operands of a wrong kind: one thing wrong at a time, on the automaton
    \* of the documented scenario
    /\ \/ tsKind = "FTS" /\ baKind = "BA" /\ apBased
       \/ /\ baTrans = ScenarioBaTrans
          /\ \/ tsKind # "FTS" /\ baKind = "BA" /\ apBased
             \/ tsKind = "FTS" /\ baKind # "BA" /\ apBased
             \/ tsKind = "FTS" /\ baKind = "BA" /\ ~apBased
    /\ pc = "idle"
    /\ prodStates = {}
    /\ prodInit = {}
    /\ prodTrans = {}
    /\ preimage = {}
    /\ queue = {}
    /\ visited = {}
    /\ nexp = 0
    /\ err = NoErr
    /\ prod_ba = NoBa
    /\ baAlphabet = AP
    /\ ids = NoIds
    /\ earlier = {}
    /\ ncalls = 1
    /\ pairs = <<>>
    /\ rcall = NoCall
    /\ before = <<>>
    /\ rerr = "none"
    /\ FsaIdle
    /\ TupleIdle

\* the objects there are when something is constructed
Used == OperandIds \cup earlier \cup {ids.prodts, ids.preimage, ids.prod_ba}

\* (variant: what is constructed takes the place of the last object)
NewObject_InPlace(used) == CHOOSE n \in used : \A m \in used : m <= n

\* a constructor call: an object that was not there before
NewObject(used) == 1 + (CHOOSE n \in used : \A m \in used : m <= n)

\* "prodts = transys.FiniteTransitionSystem(...)" and
\* "accepting_states_preimage = MathSet()"
Constructed ==
    [prodts |-> NewObject(Used), preimage |-> NewObject(Used \cup {NewObject(Used)}),
     prod_ba |-> 0]

\* a call through entry: the checks, then the seeding loop over s0s
Call(entry) ==
    /\ pc = "idle"
    /\ entry = "sync_prod" => baKind = "BA"
    /\ LET e == CallError(entry)
           unl == {s \in tsInit : StatesFind(s) = <<>>}
       IN  IF e # "none"
           THEN /\ pc' = "error"
                /\ err' = [kind |-> e, state |-> NoState]
                /\ UNCHANGED <<prodVars, queue, ids>>
           ELSE IF unl # {}
           THEN \* convert_ts2ba_label(Ls0) indexes an empty list; the
                \* initial states in P were handled before
                \E P \in SUBSET (tsInit \ unl) :
                    /\ pc' = "error"
                    /\ err' = [kind |-> "IndexError", state |-> NoState]
                    /\ prodStates' = SeedOf(P)
                    /\ prodInit' = SeedOf(P)
                    /\ preimage' = {sq \in SeedOf(P) : IsAccepting(sq[2])}
                    /\ ids' = Constructed
                    /\ UNCHANGED <<prodTrans, queue>>
           ELSE /\ pc' = "loop"
                /\ err' = err
                /\ prodStates' = SeedOf(tsInit)
                /\ prodInit' = SeedOf(tsInit)
                /\ preimage' = {sq \in SeedOf(tsInit) : IsAccepting(sq[2])}
                /\ queue' = SeedOf(tsInit)
                /\ ids' = Constructed
                /\ UNCHANGED prodTrans
    /\ UNCHANGED <<tsVars, baVars, kindVars, visited, nexp, prod_ba, earlier, ncalls>>
    /\ UNCHANGED offEngine

\* one iteration of "while queue": sq = queue.pop() is expanded
Pop ==
    /\ pc = "loop"
    /\ queue # {}
    /\ \E sq \in queue :
        LET next_ss == Post(sq[1])
            unl == {s \in next_ss : StatesFind(s) = <<>>}
            vis == visited \cup {sq}
        IN  /\ visited' = vis
            /\ nexp' = nexp + 1
            /\ IF unl # {}
               THEN \* "No AP label for FTS state: next_s"; the successors
                    \* in P were handled before
                    \E bad \in unl, P \in SUBSET (next_ss \ unl) :
                        /\ pc' = "error"
                        /\ err' = [kind |-> "Exception:no_ap_label", state |-> bad]
                        /\ prodStates' = prodStates \cup NextSqs(sq, P)
                        /\ preimage' = preimage \cup
                               {x \in NextSqs(sq, P) : IsAccepting(x[2])}
                        /\ prodTrans' = prodTrans \cup NewTrans(sq, P, vis)
                        /\ queue' = queue \ {sq}
               ELSE /\ pc' = pc
                    /\ err' = err
                    /\ prodStates' = prodStates \cup NextSqs(sq, next_ss)
                    /\ preimage' = preimage \cup
                           {x \in NextSqs(sq, next_ss) : IsAccepting(x[2])}
                    /\ prodTrans' = prodTrans \cup NewTrans(sq, next_ss, vis)
                    /\ queue' = (queue \ {sq}) \cup
                           {x \in NextSqs(sq, next_ss) : ShouldQueue(x, vis)}
    /\ UNCHANGED <<tsVars, baVars, kindVars, prodInit, prod_ba, frameVars>>
    /\ UNCHANGED offEngine

\* the queue is empty: return (prodts, accepting_states_preimage)
Return ==
    /\ pc = "loop"
    /\ queue = {}
    /\ pc' = "done"
    /\ UNCHANGED <<tsVars, baVars, kindVars, prodVars, queue, visited, nexp, err,
                   prod_ba, frameVars>>
    /\ UNCHANGED offEngine

\* (variant: every state of the product is made accepting)
ConvertedAccepting_All == prodStates

\* "prod_ba.states.accepting |= persistent"
ConvertedAccepting == preimage

\* (variant: the label of the state the edge leaves is read)
ConvertedGuard_OfSource(from_state, to_state) == StatesFind(from_state[1])[1][2]

\* transition_label_value: the 'ap' label of ts_to_state = to_state[0]
ConvertedGuard(from_state, to_state) == StatesFind(to_state[1])[1][2]

\* the edges of prod_ba: one add_labeled per (from, to) of prod_ts.transitions()
ConvertedTrans ==
    {<<e[1], e[2], ConvertedGuard(e[1], e[2])>> : e \in prodTrans}

\* the caller was _ba_ts_sync_prod: it has the product and the persistent
\* set, builds prod_ba from them and returns it
Convert ==
    /\ pc = "done"
    /\ pc' = "converted"
    /\ prod_ba' = [states |-> prodStates,
                   initial |-> prodInit,
                   accepting |-> ConvertedAccepting,
                   alphabet |-> NoBa.alphabet \cup baAlphabet,
                   transitions |-> ConvertedTrans]
    /\ ids' = [ids EXCEPT !.prod_ba = NewObject(Used)]
    /\ UNCHANGED <<tsVars, baVars, kindVars, prodVars, queue, visited, nexp, err,
                   earlier, ncalls>>
    /\ UNCHANGED offEngine

Next ==
    \/ \E entry \in Entries : Call(entry)
    \/ Pop
    \/ Return
    \/ Convert

Spec == Init /\ [][Next]_vars

\* the call is over, with a result or an exception; the caller keeps what
\* it was given and calls again on the same operands
Again ==
    /\ pc \in {"done", "converted", "error"}
    /\ ncalls < MaxCalls
    /\ pc' = "idle"
    /\ prodStates' = {} /\ prodInit' = {} /\ prodTrans' = {} /\ preimage' = {}
    /\ queue' = {} /\ visited' = {} /\ nexp' = 0 /\ err' = NoErr
    /\ prod_ba' = NoBa
    /\ earlier' = earlier \cup ({ids.prodts, ids.preimage, ids.prod_ba} \ {0})
    /\ ids' = NoIds
    /\ ncalls' = ncalls + 1
    /\ UNCHANGED <<tsVars, baVars, kindVars>>
    /\ UNCHANGED offEngine

\* operands for calls made one after the other: one initial state each
InitFrame ==
    /\ Init
    /\ tsInit = {"s0"}
    /\ baInit = {"q0"}
    /\ baAccepting = {"q1"}

FrameNext ==
    \/ Next
    \/ Again

FrameSpec == InitFrame /\ [][FrameNext]_vars

\* the call runs to completion: no step that can be taken is put off forever
FairSpec == Spec /\ WF_vars(Next)

\* the calls that enter the loop, for its termination: operands of the right
\* kinds, and one accepting set, which the loop never branches on
InitLoop ==
    /\ Init
    /\ tsKind = "FTS" /\ baKind = "BA" /\ apBased
    /\ baAccepting = {"q1"}

LoopSpec == InitLoop /\ [][Next]_vars /\ WF_vars(Next)

(* ------------------- the product, read off the operands ---------------- *)
\* L(s) of a labeled state
L(s) == tsLabel[s][1]

\* the letter L(s) is the guard g (nothing is, for an unlabeled state)
Reads(s, g) == tsLabel[s] = <<g>>

\* {(s0, q) : s0 initial in TS, q0 -g-> q in BA, q0 initial in BA, g = L(s0)}
RefInit ==
    UNION {{<<s0, t[2]>> : t \in {x \in baTrans : x[1] \in baInit /\ Reads(s0, x[3])}} :
           s0 \in tsInit}

\* the steps (s, q) -> (s', q') out of sq: s -> s' in TS, q -g-> q' in BA,
\* g = L(s'); <<sq, (s', q'), action of s -> s'>>
RefStepsFrom(sq) ==
    UNION {{<<sq, <<u[2], t[2]>>, u[3]>> :
               t \in {x \in baTrans : x[1] = sq[2] /\ Reads(u[2], x[3])}} :
           u \in {y \in tsTrans : y[1] = sq[1]}}

RefSuccessors(X) == X \cup UNION {{e[2] : e \in RefStepsFrom(sq)} : sq \in X}

RECURSIVE RefClosure(_)
RefClosure(X) == IF RefSuccessors(X) = X THEN X ELSE RefClosure(RefSuccessors(X))

\* the pairs reachable from a product-initial state
RefReach == RefClosure(RefInit)

RefTrans == UNION {RefStepsFrom(sq) : sq \in RefReach}

RefPreimage == {sq \in RefReach : sq[2] \in baAccepting}

\* |S_TS| * |Q_BA|
ProductBound == Cardinality(TSStates) * Cardinality(BAStates)

(* ------------------------------- claims -------------------------------- *)

\* C1: when the product is returned, a product state (s, q) is in the
\* accepting preimage if and only if q is an accepting state of the Buchi
\* automaton, for initial and for later discovered states alike.
C1_PreimageIffAccepting ==
    pc = "done" =>
        /\ preimage \subseteq prodStates
        /\ \A sq \in prodStates : (sq \in preimage) <=> (sq[2] \in baAccepting)

\* a returned product with an initial and a later discovered state in the
\* preimage and a state outside it
C1_Witness ==
    /\ pc = "done"
    /\ \E sq \in prodInit : sq \in preimage
    /\ \E sq \in prodStates \ prodInit : sq \in preimage
    /\ \E sq \in prodStates : sq \notin preimage

\* C2: the states of the returned product are exactly the pairs reachable
\* from a product-initial state by steps (s, q) -> (s', q') with s -> s' in
\* the transition system and q -> q' in the automaton enabled by L(s').
C2_StatesAreReachablePairs ==
    pc = "done" => prodStates = RefReach

\* a returned product with a state that is not initial, and a pair of
\* S x Q that is not reachable
C2_Witness ==
    /\ pc = "done"
    /\ prodStates \ prodInit # {}
    /\ (TSStates \X BAStates) \ prodStates # {}
    /\ nexp >= 2

\* C3: the product-initial states are exactly the (s0, q) with s0 initial in
\* the transition system and q the target of a transition of the automaton
\* out of an initial state q0 whose guard L(s0) satisfies.
C3_InitialStates ==
    pc \in {"loop", "done"} => prodInit = RefInit

\* seeding gave initial states, none of them from the initial automaton
\* state q0 itself, and an initial automaton state contributed nothing
C3_Witness ==
    /\ pc = "loop"
    /\ nexp = 0
    /\ prodInit # {}
    /\ \E s0 \in tsInit, q0 \in baInit :
           /\ <<s0, q0>> \notin prodInit
           /\ \E t \in baTrans : t[1] = q0 /\ Reads(s0, t[3])
    /\ \E q0 \in baInit : \A t \in baTrans : t[1] # q0

\* the operands are those of the documented scenario
IsScenario ==
    /\ tsInit = ScenarioTsInit
    /\ tsLabel = ScenarioTsLabel
    /\ tsTrans = ScenarioTsTrans
    /\ baInit = ScenarioBaInit
    /\ baAccepting = ScenarioBaAccepting
    /\ baTrans = ScenarioBaTrans

Satisfies(subset, g, Lab) == IF subset THEN g \subseteq Lab ELSE g = Lab

\* the automaton transitions out of q whose guard Lab satisfies
TakenBy(subset, q, Lab) == {t \in baTrans : t[1] = q /\ Satisfies(subset, t[3], Lab)}

\* the seeding step and the expansion step enabled exactly the automaton
\* transitions whose guard is satisfied: the product-initial states, and the edges out
\* of every expanded product state, are those of the transitions picked
EnabledExactlyBy(rule) ==
    pc \in {"loop", "done"} =>
        /\ prodInit = UNION {UNION {{<<s0, t[2]>> : t \in TakenBy(rule, q0, L(s0))} :
                                   q0 \in baInit} : s0 \in tsInit}
        /\ \A sq \in visited :
              {e \in prodTrans : e[1] = sq} =
              UNION {{<<sq, <<u[2], t[2]>>, u[3]>> : t \in TakenBy(rule, sq[2], L(u[2]))} :
                     u \in {y \in tsTrans : y[1] = sq[1]}}

C6_StatesArePairs ==
    /\ prodStates \subseteq TSStates \X BAStates
    /\ Cardinality(prodStates) <= ProductBound

\* a returned product kept strictly smaller than |S_TS| * |Q_BA| by a label
\* that enables no transition: s -> s' and q -> q' exist, (s, q) is a
\* product state, and (s', q') is not
C6_Witness ==
    /\ pc = "done"
    /\ Cardinality(prodStates) < ProductBound
    /\ \E sq \in prodStates, u \in tsTrans, t \in baTrans :
           /\ u[1] = sq[1] /\ t[1] = sq[2]
           /\ t[3] # L(u[2])
           /\ <<u[2], t[2]>> \notin prodStates

\* C7: the returned states, initial states, edges with their sub-labels and
\* accepting preimage are those fixed by the operands alone, whatever the
\* order in which the queued states were popped.
C7_ResultIndependentOfOrder ==
    pc = "done" =>
        /\ prodStates = RefReach
        /\ prodInit = RefInit
        /\ prodTrans = RefTrans
        /\ preimage = RefPreimage

\* a returned product that began with two queued states, so that it was
\* reached by more than one order, with a labeled edge and an edge back to
\* a state expanded earlier
C7_Witness ==
    /\ pc = "done"
    /\ Cardinality(prodInit) >= 2
    /\ prodStates # prodInit
    /\ \E e \in prodTrans : e[3] # NoAct
    /\ \E e \in prodTrans : e[2] \in prodInit

\* the call has ended: it returned or raised
Finished == pc \in {"done", "error"}

\* C8: the expansion loop runs at most |S_TS| * |Q_BA| times and the call
\* ends, product graphs with cycles and self-loops included.
C8_LoopTerminates ==
    /\ [](nexp <= ProductBound)
    /\ [](nexp = ProductBound => queue = {})
    /\ <>Finished

\* a returned product with a self-loop and a cycle through two states, each
\* of its states expanded once
C8_Witness ==
    /\ pc = "done"
    /\ \E e \in prodTrans : e[1] = e[2]
    /\ \E e, f \in prodTrans : e[1] # e[2] /\ f[1] = e[2] /\ f[2] = e[1]
    /\ nexp = Cardinality(prodStates)
    /\ nexp >= 2

\* the errors of the checks on the operands
TypeMismatch ==
    {"TypeError:transition_system", "TypeError:buchi_automaton",
     "Exception:not_ap_based", "Exception:ts_or_ba"}

\* the states of the transition system the construction came to: the initial
\* ones and the successors of the first component of an expanded state
CameTo == tsInit \cup UNION {Post(sq[1]) : sq \in visited}

\* C9: a construction that comes to a state without AP label, initial or
\* successor, returns no product and ends in a missing-label error that
\* names such a state.
C9_MissingLabelNamesState ==
    /\ pc = "done" => \A s \in CameTo : tsLabel[s] # NoLabel
    /\ (pc = "error" /\ err.kind \notin TypeMismatch \cup {"NotImplementedError"}) =>
           /\ err.kind = "Exception:no_ap_label"
           /\ err.state \in CameTo
           /\ tsLabel[err.state] = NoLabel

\* C10: a call whose automaton is not atomic-proposition based, or whose
\* other operand is not a finite transition system (nor, through sync_prod,
\* a Buchi automaton), ends in a type-mismatch error with no product state,
\* initial state, edge or preimage entry created.
C10_TypeMismatchBeforeProduct ==
    ((~apBased \/ tsKind # "FTS") /\ pc # "idle") =>
        /\ pc = "error"
        /\ \/ err.kind \in TypeMismatch
           \/ err.kind = "NotImplementedError" /\ tsKind = "BA"
        /\ prodStates = {} /\ prodInit = {} /\ prodTrans = {} /\ preimage = {}
        /\ queue = {} /\ visited = {}

\* a call refused for an automaton that is not atomic-proposition based, on
\* operands that give product states once it is
C10_Witness ==
    /\ pc = "error"
    /\ ~apBased
    /\ err.kind = "Exception:not_ap_based"
    /\ \A s \in tsInit : tsLabel[s] # NoLabel
    /\ SeedOf(tsInit) # {}
    /\ prodStates = {}

(* --------------------------- RabinPairs ------------------------------- *)
\* the states of the Rabin automaton the pairs are bound to (self._states),
\* and a state that was never added to it
DraStates == {"r0", "r1"}
Undeclared == "r2"
\* the containers of states passed to the calls
ArgSets == {{}, {"r0"}, {"r0", "r1"}, {"r0", Undeclared}}
\* the indices passed to add_states
Indices == (0 - (MaxPairs + 1)) .. MaxPairs

\* SubSet: what "subset |= elements" and subset.add_from(elements) leave
\* in subset, and whether they raise: elements outside the superset are
\* refused and nothing is added
SubSetAddFrom(subset, elements) ==
    IF elements \subseteq DraStates
    THEN [set |-> subset \cup elements, err |-> "none"]
    ELSE [set |-> subset, err |-> "Exception:not_in_superset"]

\* seq[index] of a Python list: -len .. -1 count from the end; 0 when
\* the index raises IndexError, else the position from 1
ListIndex(seq, index) ==
    IF 0 <= index /\ index < Len(seq) THEN index + 1
    ELSE IF index < 0 /\ 0 - Len(seq) <= index THEN Len(seq) + index + 1
    ELSE 0

\* (variant: the last item equal to x is taken out)
ListRemove_Last(seq, x) ==
    LET i == CHOOSE j \in 1..Len(seq) :
                 seq[j] = x /\ \A k \in (j + 1)..Len(seq) : seq[k] # x
    IN  SubSeq(seq, 1, i - 1) \o SubSeq(seq, i + 1, Len(seq))

\* list.remove(x): the list without the first item equal to x
ListRemove(seq, x) ==
    LET i == CHOOSE j \in 1..Len(seq) :
                 seq[j] = x /\ \A k \in 1..(j - 1) : seq[k] # x
    IN  SubSeq(seq, 1, i - 1) \o SubSeq(seq, i + 1, Len(seq))

\* (variant: the pair is made of the containers as they were passed)
add_Unchecked(ps, good_states, bad_states) ==
    [pairs |-> Append(ps, <<good_states, bad_states>>), err |-> "none"]

\* (variant: the pair is put in front)
add_InFront(ps, good_states, bad_states) ==
    LET good_set == SubSetAddFrom({}, good_states)
        bad_set == SubSetAddFrom({}, bad_states)
    IN  IF good_set.err # "none" THEN [pairs |-> ps, err |-> good_set.err]
        ELSE IF bad_set.err # "none" THEN [pairs |-> ps, err |-> bad_set.err]
        ELSE [pairs |-> <<<<good_set.set, bad_set.set>>>> \o ps, err |-> "none"]

\* RabinPairs.add: _pairs after the call, and the exception raised
add(ps, good_states, bad_states) ==
    LET good_set == SubSetAddFrom({}, good_states)
        bad_set == SubSetAddFrom({}, bad_states)
    IN  IF good_set.err # "none" THEN [pairs |-> ps, err |-> good_set.err]
        ELSE IF bad_set.err # "none" THEN [pairs |-> ps, err |-> bad_set.err]
        ELSE [pairs |-> Append(ps, <<good_set.set, bad_set.set>>), err |-> "none"]

\* (variant: a pair that is not there is passed over in silence)
remove_Discard(ps, good_states, bad_states) ==
    LET good_set == SubSetAddFrom({}, good_states)
        bad_set == SubSetAddFrom({}, bad_states)
        x == <<good_set.set, bad_set.set>>
    IN  IF good_set.err # "none" THEN [pairs |-> ps, err |-> good_set.err]
        ELSE IF bad_set.err # "none" THEN [pairs |-> ps, err |-> bad_set.err]
        ELSE IF \A i \in 1..Len(ps) : ps[i] # x THEN [pairs |-> ps, err |-> "none"]
        ELSE [pairs |-> ListRemove(ps, x), err |-> "none"]

\* RabinPairs.remove: the two SubSets are built as in add, then
\* self._pairs.remove((good_set, bad_set))
remove(ps, good_states, bad_states) ==
    LET good_set == SubSetAddFrom({}, good_states)
        bad_set == SubSetAddFrom({}, bad_states)
        x == <<good_set.set, bad_set.set>>
    IN  IF good_set.err # "none" THEN [pairs |-> ps, err |-> good_set.err]
        ELSE IF bad_set.err # "none" THEN [pairs |-> ps, err |-> bad_set.err]
        ELSE IF \A i \in 1..Len(ps) : ps[i] # x THEN [pairs |-> ps, err |-> "ValueError"]
        ELSE [pairs |-> ListRemove(ps, x), err |-> "none"]

\* (variant: the sets of the pair are replaced by the containers passed)
add_states_Replace(ps, pair_index, good_states, bad_states) ==
    LET i == ListIndex(ps, pair_index)
        good == SubSetAddFrom({}, good_states)
        bad == SubSetAddFrom({}, bad_states)
    IN  IF i = 0 THEN [pairs |-> ps, err |-> "Exception:no_pair_index"]
        ELSE IF good.err # "none" THEN [pairs |-> ps, err |-> good.err]
        ELSE [pairs |-> [ps EXCEPT ![i] = <<good.set, bad.set>>], err |-> bad.err]

\* (variant: an index that names no pair is passed over in silence)
add_states_NoRangeError(ps, pair_index, good_states, bad_states) ==
    LET i == ListIndex(ps, pair_index)
        good == SubSetAddFrom(ps[i][1], good_states)
        bad == SubSetAddFrom(ps[i][2], bad_states)
    IN  IF i = 0 THEN [pairs |-> ps, err |-> "none"]
        ELSE IF good.err # "none" THEN [pairs |-> ps, err |-> good.err]
        ELSE [pairs |-> [ps EXCEPT ![i] = <<good.set, bad.set>>], err |-> bad.err]

\* RabinPairs.add_states: _pairs[pair_index][0].add_from(good_states), then
\* _pairs[pair_index][1].add_from(bad_states); an IndexError becomes the
\* Exception "A pair with pair_index doesn't exist"
add_states(ps, pair_index, good_states, bad_states) ==
    LET i == ListIndex(ps, pair_index)
        good == SubSetAddFrom(ps[i][1], good_states)
        bad == SubSetAddFrom(ps[i][2], bad_states)
    IN  IF i = 0 THEN [pairs |-> ps, err |-> "Exception:no_pair_index"]
        ELSE IF good.err # "none" THEN [pairs |-> ps, err |-> good.err]
        ELSE [pairs |-> [ps EXCEPT ![i] = <<good.set, bad.set>>], err |-> bad.err]

\* the engine is not running
EngineIdle ==
    /\ tsInit = ScenarioTsInit
    /\ tsLabel = ScenarioTsLabel
    /\ tsTrans = ScenarioTsTrans
    /\ baInit = ScenarioBaInit
    /\ baAccepting = ScenarioBaAccepting
    /\ baTrans = ScenarioBaTrans
    /\ tsKind = "FTS" /\ baKind = "BA" /\ apBased = TRUE
    /\ pc = "idle"
    /\ prodStates = {} /\ prodInit = {} /\ prodTrans = {} /\ preimage = {}
    /\ queue = {} /\ visited = {} /\ nexp = 0 /\ err = NoErr
    /\ prod_ba = NoBa
    /\ baAlphabet = AP
    /\ ids = NoIds /\ earlier = {} /\ ncalls = 1

\* RabinPairs.__init__
RabinInit ==
    /\ EngineIdle
    /\ pairs = <<>>
    /\ rcall = NoCall
    /\ before = <<>>
    /\ rerr = "none"
    /\ FsaIdle
    /\ TupleIdle

\* accepting.add(good_states, bad_states)
CallAdd ==
    \E good_states, bad_states \in ArgSets :
        LET r == add(pairs, good_states, bad_states)
        IN  /\ Len(r.pairs) <= MaxPairs
            /\ pairs' = r.pairs
            /\ rerr' = r.err
            /\ before' = pairs
            /\ rcall' = [op |-> "add", index |-> 0,
                         good |-> good_states, bad |-> bad_states]
            /\ UNCHANGED offRabin

\* accepting.remove(good_states, bad_states)
CallRemove ==
    \E good_states, bad_states \in ArgSets :
        LET r == remove(pairs, good_states, bad_states)
        IN  /\ pairs' = r.pairs
            /\ rerr' = r.err
            /\ before' = pairs
            /\ rcall' = [op |-> "remove", index |-> 0,
                         good |-> good_states, bad |-> bad_states]
            /\ UNCHANGED offRabin

\* accepting.add_states(pair_index, good_states, bad_states)
CallAddStates ==
    \E pair_index \in Indices, good_states, bad_states \in ArgSets :
        LET r == add_states(pairs, pair_index, good_states, bad_states)
        IN  /\ pairs' = r.pairs
            /\ rerr' = r.err
            /\ before' = pairs
            /\ rcall' = [op |-> "add_states", index |-> pair_index,
                         good |-> good_states, bad |-> bad_states]
            /\ UNCHANGED offRabin

RabinNext ==
    \/ CallAdd
    \/ CallRemove
    \/ CallAddStates

RabinSpec == RabinInit /\ [][RabinNext]_vars

\* RabinPairs.good(index), RabinPairs.bad(index) on the list ps
good(ps, index) == ps[ListIndex(ps, index)][1]
bad(ps, index) == ps[ListIndex(ps, index)][2]

\* the pairs that add can have stored, and the lists of at most MaxHeld of
\* them
StoredPairs == {<<g, b>> : g \in {a \in ArgSets : a \subseteq DraStates},
                          b \in {a \in ArgSets : a \subseteq DraStates}}
HeldLists == UNION {[1..n -> StoredPairs] : n \in 0..MaxHeld}

\* remove is called on a list that earlier calls of add have left
RemoveInit ==
    /\ EngineIdle
    /\ pairs \in HeldLists
    /\ rcall = NoCall
    /\ before = <<>>
    /\ rerr = "none"
    /\ FsaIdle
    /\ TupleIdle

RemoveSpec == RemoveInit /\ [][CallRemove]_vars

(* ------------------- constructors, dfa2nfa ---------------------------- *)
\* the constructor calls: the class, and the value of 'deterministic' that
\* reaches FiniteStateAutomaton.__init__ (DFA and DRA pass True)
Constructors == {<<"NFA", FALSE>>, <<"NFA", TRUE>>, <<"DFA", TRUE>>,
                 <<"RabinAutomaton", FALSE>>, <<"DRA", TRUE>>}

\* self.automaton_type as the constructor of the class leaves it
AutomatonType(class) ==
    CASE class = "NFA" -> "Non-Deterministic Finite Automaton"
      [] class = "DFA" -> "Deterministic Finite Automaton"
      [] class = "RabinAutomaton" -> "Rabin Automaton"
      [] class = "DRA" -> "Deterministic Rabin Automaton"
      [] class = "BuchiAutomaton" -> "Buchi Automaton"
      [] OTHER -> "Finite State Automaton"

\* transitions._deterministic of a graph made by LabeledStateDiGraph.__init__
\* when it is not told otherwise
GraphDeterministic == FALSE

\* FiniteStateAutomaton.__init__ as reached from the constructor of class:
\* 'deterministic' is received (field asked, kept here for the record only)
\* and is not handed to LabeledStateDiGraph.__init__
Construct(class, deterministic) ==
    [class |-> class, asked |-> deterministic,
     deterministic |-> GraphDeterministic,
     automaton_type |-> AutomatonType(class),
     states |-> {}, initial |-> {}, accepting |-> {}, transitions |-> {}]

\* the states and the one letter used on automata
FsaStates == {"a0", "a1"}
FsaLetter == "x"

\* transitions.add_labeled(from, to, label) on automaton aut: refused on a
\* deterministic automaton that has another transition from the same state
\* with the same label
add_labeled(aut, from_state, to_state, label) ==
    IF /\ aut.deterministic
       /\ \E u \in aut.transitions :
              u[1] = from_state /\ u[3] = label /\ u[2] # to_state
    THEN [aut |-> aut, err |-> "DeterminismViolation"]
    ELSE [aut |-> [aut EXCEPT !.transitions = @ \cup {<<from_state, to_state, label>>}],
          err |-> "none"]

\* aut.copy(): a new automaton with the contents of aut
Copy(aut) ==
    [class |-> aut.class, asked |-> aut.asked, deterministic |-> aut.deterministic,
     automaton_type |-> aut.automaton_type,
     states |-> aut.states, initial |-> aut.initial, accepting |-> aut.accepting,
     transitions |-> aut.transitions]

\* dfa2nfa(d): the copy, with _deterministic and automaton_type assigned
dfa2nfa(d) ==
    [Copy(d) EXCEPT !.deterministic = FALSE,
                    !.automaton_type = "Non-Deterministic Finite Automaton"]

\* an automaton was made by one of the constructors
FsaInit ==
    /\ EngineIdle
    /\ pairs = <<>> /\ rcall = NoCall /\ before = <<>> /\ rerr = "none"
    /\ dfa \in {Construct(c[1], c[2]) : c \in Constructors}
    /\ nfa = NoAut
    /\ fcall = NoFsaCall
    /\ fbefore = [dfa |-> NoAut, nfa |-> NoAut]
    /\ ferr = "none"
    /\ fret = NoRet
    /\ TupleIdle

\* the automaton named on
Aut(on) == IF on = "dfa" THEN dfa ELSE nfa

\* the call left new in the automaton named on and raised e
Calls(on, new, call, e) ==
    /\ IF on = "dfa" THEN dfa' = new /\ nfa' = nfa ELSE nfa' = new /\ dfa' = dfa
    /\ fcall' = call
    /\ fbefore' = [dfa |-> dfa, nfa |-> nfa]
    /\ ferr' = e
    /\ fret' = fret
    /\ UNCHANGED offFsa

\* aut.states.add(s)
StatesAdd ==
    \E on \in {"dfa", "nfa"}, s \in FsaStates :
        /\ Aut(on) # NoAut
        /\ Calls(on, [Aut(on) EXCEPT !.states = @ \cup {s}],
                 [NoFsaCall EXCEPT !.op = "states.add", !.on = on, !.to = s], "none")

\* aut.states.initial.add(s): a0, once it is a state
InitialAdd ==
    \E on \in {"dfa", "nfa"} :
        /\ "a0" \in Aut(on).states
        /\ Calls(on, [Aut(on) EXCEPT !.initial = @ \cup {"a0"}],
                 [NoFsaCall EXCEPT !.op = "initial.add", !.on = on, !.to = "a0"],
                 "none")

\* aut.states.accepting.add(s) on a finite-word automaton: a1, once it is
\* a state
AcceptingAdd ==
    \E on \in {"dfa", "nfa"} :
        /\ Aut(on).class \in {"NFA", "DFA"}
        /\ "a1" \in Aut(on).states
        /\ Calls(on, [Aut(on) EXCEPT !.accepting = @ \cup {"a1"}],
                 [NoFsaCall EXCEPT !.op = "accepting.add", !.on = on, !.to = "a1"],
                 "none")

\* aut.transitions.add_labeled(from, to, label) between states of aut
AddLabeled ==
    \E on \in {"dfa", "nfa"} :
        \E from_state, to_state \in Aut(on).states :
            LET r == add_labeled(Aut(on), from_state, to_state, FsaLetter)
            IN  Calls(on, r.aut,
                      [NoFsaCall EXCEPT !.op = "add_labeled", !.on = on,
                                        !.from = from_state, !.to = to_state,
                                        !.label = FsaLetter], r.err)

\* nfa = dfa2nfa(dfa)
Dfa2nfa ==
    /\ dfa # NoAut
    /\ Calls("nfa", dfa2nfa(dfa), [NoFsaCall EXCEPT !.op = "dfa2nfa", !.on = "dfa"],
             "none")

FsaNext ==
    \/ StatesAdd
    \/ InitialAdd
    \/ AcceptingAdd
    \/ AddLabeled
    \/ Dfa2nfa

FsaSpec == FsaInit /\ [][FsaNext]_vars

(* --------------- acceptance tests, conversions not written ------------ *)
\* the constructors of the omega-automata: Streett, Muller and Parity
\* automata have the constructor of OmegaAutomaton
OmegaConstructors == {<<"BuchiAutomaton", FALSE>>, <<"StreettAutomaton", FALSE>>,
                      <<"MullerAutomaton", FALSE>>, <<"ParityAutomaton", FALSE>>}

\* the automata that the constructors and the calls that add states, initial
\* and accepting states and transitions can have left; the accepting states
\* of a Rabin automaton are pairs, held apart
BuiltAutomata ==
    UNION {{[Construct(c[1], c[2]) EXCEPT !.states = FsaStates, !.initial = I,
                                          !.accepting = A, !.transitions = T] :
               I \in SUBSET FsaStates,
               A \in IF c[1] \in {"RabinAutomaton", "DRA"}
                     THEN {{}} ELSE SUBSET FsaStates,
               T \in SUBSET (FsaStates \X FsaStates \X {FsaLetter})} :
           c \in Constructors \cup OmegaConstructors}

\* the finite words
Words == UNION {[1..n -> {FsaLetter}] : n \in 0..MaxWordLen}

\* "raise NotImplementedError"
NotImplemented == [err |-> "NotImplementedError", ret |-> NoRet]

\* (variant: the function returns None)
nfa2dfa_Silent == [err |-> "none", ret |-> "None"]

\* nfa2dfa()
nfa2dfa == NotImplemented

\* ba2dra(), ba2ltl()
ba2dra == NotImplemented
ba2ltl == NotImplemented

\* BuchiAutomaton._ba_ba_sync_prod, reached from sync_prod when the operand
\* is a BuchiAutomaton
ba_ba_sync_prod == NotImplemented

\* is_accepted of the class: the body of BuchiAutomaton.is_accepted is its
\* docstring, so the call returns None; the others raise
is_accepted(class) ==
    IF class = "BuchiAutomaton" THEN [err |-> "none", ret |-> "None"]
    ELSE NotImplemented

\* an automaton is at hand
AcceptInit ==
    /\ EngineIdle
    /\ pairs = <<>> /\ rcall = NoCall /\ before = <<>> /\ rerr = "none"
    /\ dfa \in BuiltAutomata
    /\ nfa = NoAut
    /\ fcall = NoFsaCall
    /\ fbefore = [dfa |-> NoAut, nfa |-> NoAut]
    /\ ferr = "none"
    /\ fret = NoRet
    /\ TupleIdle

\* the call with outcome r, which assigns to nothing
Returns(call, r) ==
    /\ fcall' = call
    /\ fbefore' = [dfa |-> dfa, nfa |-> nfa]
    /\ ferr' = r.err
    /\ fret' = r.ret
    /\ UNCHANGED <<dfa, nfa>>
    /\ UNCHANGED offFsa

\* dfa.is_accepted(word)
IsAccepted ==
    \E word \in Words :
        /\ dfa.class # "BuchiAutomaton"
        /\ Returns([NoFsaCall EXCEPT !.op = "is_accepted", !.on = "dfa",
                                     !.word = word],
                   is_accepted(dfa.class))

\* dfa.is_accepted(prefix, suffix) of a Buchi automaton
IsAcceptedOmega ==
    \E prefix \in Words, suffix \in Words \ {<<>>} :
        /\ dfa.class = "BuchiAutomaton"
        /\ Returns([NoFsaCall EXCEPT !.op = "is_accepted", !.on = "dfa",
                                     !.word = prefix, !.suffix = suffix],
                   is_accepted(dfa.class))

\* nfa2dfa()
Nfa2dfa ==
    /\ dfa.class \in {"NFA", "DFA"}
    /\ Returns([NoFsaCall EXCEPT !.op = "nfa2dfa"], nfa2dfa)

\* ba2dra()
Ba2dra ==
    /\ dfa.class = "BuchiAutomaton"
    /\ Returns([NoFsaCall EXCEPT !.op = "ba2dra"], ba2dra)

\* ba2ltl()
Ba2ltl ==
    /\ dfa.class = "BuchiAutomaton"
    /\ Returns([NoFsaCall EXCEPT !.op = "ba2ltl"], ba2ltl)

\* dfa.sync_prod(ts_or_ba) of a Buchi automaton, ts_or_ba a Buchi automaton
SyncProdBa ==
    /\ dfa.class = "BuchiAutomaton"
    /\ Returns([NoFsaCall EXCEPT !.op = "sync_prod", !.on = "dfa"], ba_ba_sync_prod)

AcceptNext ==
    \/ IsAccepted
    \/ IsAcceptedOmega
    \/ Nfa2dfa
    \/ Ba2dra
    \/ Ba2ltl
    \/ SyncProdBa

AcceptSpec == AcceptInit /\ [][AcceptNext]_vars

(* ------------------------------ tuple2ba ------------------------------- *)
TupleStates == {"q0", "q1"}
Symbols == {"a", "b"}
\* prepend_str: None, or a string
NoPrefix == "None"
Prefixes == {NoPrefix, "ba_"}

\* a Python value that is a string, and one that is a collection of strings
Str(x) == [str |-> TRUE, sym |-> x, set |-> {}]
Coll(c) == [str |-> FALSE, sym |-> "", set |-> c]

\* prepend_with(states, prepend_str): every name with the string in front
\* of it; the names themselves when there is no string
prepend_with(states, prepend_str) ==
    IF prepend_str = NoPrefix THEN states
    ELSE {prepend_str \o x : x \in states}

\* str2singleton(guard): a string becomes the set that holds it
str2singleton(guard) == IF guard.str THEN Coll({guard.sym}) ELSE guard

\* "if not isinstance(S0, Iterable) or isinstance(S0, str): S0 = [S0]"
AsList(x) == IF x.single THEN {x.state} ELSE x.val

\* BA(name, atomic_proposition_based): no state and no transition; the
\* alphabet is a PowerSet over an empty math_set, or an empty set()
BA(atomic_proposition_based) ==
    [atomic_proposition_based |-> atomic_proposition_based,
     states |-> {}, initial |-> {}, accepting |-> {},
     math_set |-> {}, alphabet |-> {}, transitions |-> {}]

Raised(e) == [err |-> e]
Returned(ba) == [err |-> "none", ba |-> ba]

\* the label may be put on a transition of ba
InAlphabet(ba, label) ==
    IF ba.atomic_proposition_based
    THEN ~label.str /\ label.set \subseteq ba.math_set
    ELSE label \in ba.alphabet

\* the label of the transition made from a triple
TupleLabel(atomic_proposition_based, guard) ==
    IF atomic_proposition_based THEN str2singleton(guard) ELSE guard

\* "ba.alphabet.add(alphabet_or_ap)" on a set(): the argument becomes one
\* element of the set
AlphabetAdd(alphabet, Sigma) == alphabet \cup {Coll(Sigma.val)}

\* tuple2ba(S, S0, Sa, Sigma_or_AP, trans, prepend_str=...,
\*          atomic_proposition_based=...); check: add_labeled refuses a
\* label that is not of the alphabet
tuple2ba(a, check) ==
    IF ~a.S.iterable THEN Raised("TypeError:S")
    ELSE
    LET apb == a.atomic_proposition_based
        states == prepend_with(a.S.val, a.prepend_str)
        initial_states == prepend_with(AsList(a.S0), a.prepend_str)
        accepting_states == prepend_with(AsList(a.Sa), a.prepend_str)
        ba1 == [BA(apb) EXCEPT !.states = states]
        ba2 == [ba1 EXCEPT !.initial = @ \cup initial_states]
        ba3 == [ba2 EXCEPT !.accepting = @ \cup accepting_states]
        ba4 == IF apb
               THEN [ba3 EXCEPT !.math_set = @ \cup a.Sigma_or_AP.val]
               ELSE [ba3 EXCEPT !.alphabet = AlphabetAdd(@, a.Sigma_or_AP)]
        made == {<<CHOOSE x \in prepend_with({t[1]}, a.prepend_str) : TRUE,
                   CHOOSE x \in prepend_with({t[2]}, a.prepend_str) : TRUE,
                   TupleLabel(apb, t[3])>> : t \in a.trans}
    IN  IF ~(initial_states \subseteq ba1.states) THEN Raised("Exception:not_in_superset")
        ELSE IF ~(accepting_states \subseteq ba2.states)
        THEN Raised("Exception:not_in_superset")
        ELSE IF ~apb /\ ~a.Sigma_or_AP.hashable THEN Raised("TypeError:unhashable")
        ELSE IF check /\ \E t \in made : ~InAlphabet(ba4, t[3])
        THEN Raised("Exception:label")
        ELSE Returned([ba4 EXCEPT !.transitions = made])

\* the arguments a caller gives
SFamily ==
    {[iterable |-> TRUE, val |-> {"q0"}], [iterable |-> TRUE, val |-> TupleStates],
     [iterable |-> FALSE, val |-> {}]}
S0Family ==
    {[single |-> TRUE, state |-> "q0", val |-> {}]}
    \cup {[single |-> FALSE, state |-> "", val |-> v] : v \in SUBSET TupleStates}
SigmaFamily ==
    [hashable : BOOLEAN, val : {{"a"}, Symbols}]
Guards == {Str("a"), Coll({"a"}), Coll(Symbols)}
TransFamily(S) ==
    {T \in SUBSET (S \X S \X Guards) : Cardinality(T) <= MaxTupleTrans}

TupleInit ==
    /\ EngineIdle
    /\ pairs = <<>> /\ rcall = NoCall /\ before = <<>> /\ rerr = "none"
    /\ FsaIdle
    /\ \E S \in SFamily, S0, Sa \in S0Family, Sigma \in SigmaFamily,
          p \in Prefixes, apb \in BOOLEAN :
          \E T \in TransFamily(S.val) :
              targs = [S |-> S, S0 |-> S0, Sa |-> Sa, Sigma_or_AP |-> Sigma,
                       trans |-> T, prepend_str |-> p,
                       atomic_proposition_based |-> apb]
    /\ tba = NoTuple

Tuple2ba ==
    /\ tba = NoTuple
    /\ \E check \in BOOLEAN : tba' = tuple2ba(targs, check)
    /\ UNCHANGED targs
    /\ UNCHANGED offTuple

TupleSpec == TupleInit /\ [][Tuple2ba]_vars

(* ------------------------------ C11 ----------------------------------- *)
\* the transitions of the product that the operands ask for out of sq
EdgesAskedFrom(sq) ==
    {<<sq, <<u[2], t[2]>>, u[3]>> : u \in {x \in tsTrans : x[1] = sq[1]},
                                   t \in {x \in baTrans : x[1] = sq[2]}}
    \cap {e \in prodStates \X (TSStates \X BAStates) \X Acts :
             \E t \in baTrans : /\ t[1] = e[1][2]
                                /\ t[2] = e[2][2]
                                /\ Reads(e[2][1], t[3])}

\* C11: the returned product has an edge (s,q) -> (s',q') exactly when
\* (s,q) is a product state, the transition system has s -> s' and the
\* automaton has q -> q' enabled by L(s'); the edge carries the sub-label of
\* the transition s -> s', or none when that transition has none; and every
\* edge ever added projects onto a transition of each operand.
C11_EdgeIffBothMove ==
    /\ pc = "done" => prodTrans = UNION {EdgesAskedFrom(sq) : sq \in prodStates}
    /\ \A e \in prodTrans :
           /\ e[1] \in prodStates
           /\ <<e[1][1], e[2][1], e[3]>> \in tsTrans
           /\ \E t \in baTrans : t[1] = e[1][2] /\ t[2] = e[2][2]

\* a returned product with a labeled and an unlabeled edge, where a
\* transition of the transition system out of a product state is left out
\* because no transition of the automaton reads the label of its target
C11_Witness ==
    /\ pc = "done"
    /\ \E e \in prodTrans : e[3] # NoAct
    /\ \E e \in prodTrans : e[3] = NoAct
    /\ \E sq \in prodStates : \E u \in tsTrans :
           /\ u[1] = sq[1]
           /\ \A e \in prodTrans : e[1] = sq => e[2][1] # u[2]

(* --------------------------- C12, C13 --------------------------------- *)
\* C12: the automaton returned by _ba_ts_sync_prod has exactly the states
\* and the initial states of the product transition system, and its
\* accepting set is exactly the accepting preimage.
C12_ConvertedStates ==
    pc = "converted" =>
        /\ prod_ba.states = prodStates
        /\ prod_ba.initial = prodInit
        /\ prod_ba.accepting = preimage
        /\ prod_ba.accepting = {sq \in prod_ba.states : sq[2] \in baAccepting}

\* a converted product with an initial state, a state that is not initial,
\* an accepting state and a state that is not accepting
C12_Witness ==
    /\ pc = "converted"
    /\ prod_ba.initial # {}
    /\ prod_ba.initial # prod_ba.states
    /\ prod_ba.accepting # {}
    /\ prod_ba.accepting # prod_ba.states

\* C13: the converted automaton has an edge exactly where the product
\* transition system has one; the guard of the edge (s,q) -> (s',q') is
\* L(s'), the label of the destination, so that all edges entering one
\* product state carry the same guard.
C13_GuardIsDestinationLabel ==
    pc = "converted" =>
        /\ {<<e[1], e[2]>> : e \in prod_ba.transitions}
               = {<<e[1], e[2]>> : e \in prodTrans}
        /\ \A e \in prod_ba.transitions : e[3] = L(e[2][1])
        /\ \A e, f \in prod_ba.transitions : e[2] = f[2] => e[3] = f[3]

\* a converted product with an edge between states of different labels,
\* made from a transition that carries an action, and a state entered by
\* two edges
C13_Witness ==
    /\ pc = "converted"
    /\ \E e \in prod_ba.transitions : L(e[1][1]) # L(e[2][1])
    /\ \E e \in prodTrans : e[3] # NoAct
    /\ \E e, f \in prod_ba.transitions : e[2] = f[2] /\ e[1] # f[1]

(* ------------------------------ C14 ----------------------------------- *)
\* C14: after any sequence of add, remove and add_states calls, whether
\* they succeed or fail, the good set and the bad set of every pair contain
\* only states of the automaton the pairs are bound to.
C14_PairsWithinUniverse ==
    \A i \in 1..Len(pairs) :
        pairs[i][1] \subseteq DraStates /\ pairs[i][2] \subseteq DraStates

\* two pairs are held, and the last call was refused for a state that was
\* never declared
C14_Witness ==
    /\ Len(pairs) = 2
    /\ pairs[1][1] # {}
    /\ rerr = "Exception:not_in_superset"
    /\ Undeclared \in rcall.good \cup rcall.bad

(* ------------------------------ C15 ----------------------------------- *)
\* C15: add(good, bad) appends one pair (good, bad) at the end of the
\* sequence when every element of good and bad is a declared state;
\* otherwise it fails with the invalid-state error and the sequence is
\* left exactly as it was.
C15_AddAppendsOrRefuses ==
    rcall.op = "add" =>
        IF rcall.good \subseteq DraStates /\ rcall.bad \subseteq DraStates
        THEN /\ rerr = "none"
             /\ Len(pairs) = Len(before) + 1
             /\ pairs[Len(pairs)] = <<rcall.good, rcall.bad>>
             /\ \A i \in 1..Len(before) : pairs[i] = before[i]
        ELSE /\ rerr = "Exception:not_in_superset"
             /\ pairs = before

\* a pair was appended behind a different one
C15_Witness ==
    /\ rcall.op = "add"
    /\ rerr = "none"
    /\ Len(pairs) = 2
    /\ pairs[1] # pairs[2]

(* ------------------------------ C16 ----------------------------------- *)
\* the call was made with a value that no pair of the sequence had
MatchesNoPair == \A i \in 1..Len(before) : before[i] # <<rcall.good, rcall.bad>>

\* C16 (as stated): remove(good, bad) with a value that matches no pair of
\* the sequence fails with the pair-not-found error and leaves the sequence
\* unchanged.
C16_RemoveUnmatchedNotFound ==
    (rcall.op = "remove" /\ MatchesNoPair) =>
        rerr = "ValueError" /\ pairs = before

\* C16 (amended): remove(good, bad) with a value that matches no pair of
\* the sequence leaves the sequence unchanged and fails: with the
\* pair-not-found error when good and bad hold declared states only, with
\* the invalid-state error of add when they hold a state never declared.
C16_RemoveUnmatchedFails ==
    (rcall.op = "remove" /\ MatchesNoPair) =>
        /\ pairs = before
        /\ rerr = IF rcall.good \cup rcall.bad \subseteq DraStates
                  THEN "ValueError"
                  ELSE "Exception:not_in_superset"

\* a value of declared states was not found among the two pairs held
C16_Witness ==
    /\ rcall.op = "remove"
    /\ rerr = "ValueError"
    /\ Len(pairs) = 2
    /\ rcall.good # {}

(* ------------------------------ C17 ----------------------------------- *)
\* C17: a successful add_states(index, good, bad) only grows the indexed
\* pair: its good set is the old good set with the given good states, its
\* bad set the old bad set with the given bad states, no member is removed,
\* and every other pair is unchanged.
C17_AddStatesOnlyGrows ==
    (rcall.op = "add_states" /\ rerr = "none") =>
        LET n == Len(before)
            i == IF rcall.index >= 0 THEN rcall.index + 1 ELSE n + rcall.index + 1
        IN  /\ Len(pairs) = n
            /\ i \in 1..n
            /\ pairs[i][1] = before[i][1] \cup rcall.good
            /\ pairs[i][2] = before[i][2] \cup rcall.bad
            /\ before[i][1] \subseteq pairs[i][1]
            /\ before[i][2] \subseteq pairs[i][2]
            /\ \A j \in 1..n : j # i => pairs[j] = before[j]

\* the first of two pairs had a good state and a bad state and got a
\* second good state
C17_Witness ==
    /\ rcall.op = "add_states"
    /\ rerr = "none"
    /\ rcall.index = 0
    /\ Len(pairs) = 2
    /\ before[1][1] # {}
    /\ before[1][2] # {}
    /\ before[1][2] # rcall.bad
    /\ pairs[1][1] # before[1][1]

(* ------------------------------ C18 ----------------------------------- *)
\* C18 (as stated): add_states with an index outside 0 .. n-1, n the number
\* of pairs, negative indices included, fails with the index-range error
\* and changes no pair.
C18_OutsideZeroToNFails ==
    (rcall.op = "add_states" /\ rcall.index \notin 0..(Len(before) - 1)) =>
        rerr = "Exception:no_pair_index" /\ pairs = before

\* C18 (amended): add_states with an index outside -n .. n-1, n the number
\* of pairs (any index when there is no pair), fails with the index-range
\* error and changes no pair; an index -k with 1 <= k <= n names the k-th
\* pair from the end.
C18_OutsideListRangeFails ==
    (rcall.op = "add_states"
        /\ rcall.index \notin (0 - Len(before))..(Len(before) - 1)) =>
        rerr = "Exception:no_pair_index" /\ pairs = before

\* an index below -n was refused while pairs were held
C18_Witness ==
    /\ rcall.op = "add_states"
    /\ rerr = "Exception:no_pair_index"
    /\ Len(before) >= 1
    /\ rcall.index < 0
    /\ rcall.good # {}

(* ------------------------------ C19 ----------------------------------- *)
\* the automaton returned by dfa2nfa has the contents of its operand, is
\* not deterministic and is tagged as NFA; the operand is as it was; a
\* later call on one of the two leaves the other as it was
Dfa2nfaCopies ==
    /\ fcall.op = "dfa2nfa" =>
           /\ nfa.states = fbefore.dfa.states
           /\ nfa.initial = fbefore.dfa.initial
           /\ nfa.accepting = fbefore.dfa.accepting
           /\ nfa.transitions = fbefore.dfa.transitions
           /\ ~nfa.deterministic
           /\ nfa.automaton_type = "Non-Deterministic Finite Automaton"
           /\ dfa = fbefore.dfa
    /\ (fcall.op \notin {"none", "dfa2nfa"} /\ fcall.on = "dfa") => nfa = fbefore.nfa
    /\ fcall.on = "nfa" => dfa = fbefore.dfa

\* C19: dfa2nfa(dfa) returns an automaton with the same states, initial
\* set, accepting set and transitions as the input, with the determinism
\* flag cleared and the flavor tag NFA; it is an independent copy, and the
\* input DFA keeps its determinism flag set, its tag and its contents.
C19_Dfa2nfaKeepsInput ==
    /\ Dfa2nfaCopies
    /\ (fcall.op = "dfa2nfa" /\ dfa.class = "DFA") =>
           /\ dfa.deterministic
           /\ dfa.automaton_type = "Deterministic Finite Automaton"

(* ------------------------------ C20 ----------------------------------- *)
\* C20: on an automaton constructed as deterministic (DFA, DRA, or
\* deterministic=True), adding a second transition with the same
\* (from-state, label) as an existing one fails with the
\* determinism-violation error, so that no two of its transitions share
\* (from-state, label).
C20_DeterministicRefusesSecond ==
    dfa.asked =>
        /\ \A t, u \in dfa.transitions : (t[1] = u[1] /\ t[3] = u[3]) => t = u
        /\ (/\ fcall.op = "add_labeled"
            /\ fcall.on = "dfa"
            /\ \E u \in fbefore.dfa.transitions :
                   u[1] = fcall.from /\ u[3] = fcall.label /\ u[2] # fcall.to)
               => (ferr = "DeterminismViolation" /\ dfa = fbefore.dfa)

(* ------------------------------ C27 ----------------------------------- *)
\* C27: add_states is all-or-nothing on invalid elements: if an element of
\* the given good states or of the given bad states is not a declared
\* state, the call fails and neither set of the indexed pair is changed; in
\* particular the good set is not extended when only the bad states are
\* invalid.
C27_AddStatesAllOrNothing ==
    (rcall.op = "add_states" /\ ~(rcall.good \cup rcall.bad \subseteq DraStates)) =>
        rerr # "none" /\ pairs = before

(* ------------------------------ C28 ----------------------------------- *)
\* C28: a successful remove(good, bad) deletes exactly one pair, the first
\* whose good and bad sets equal the given values; the number of pairs
\* drops by one, the pairs before the removed position keep their index
\* and each pair after it has its index reduced by one, so that good(i)
\* and bad(i) from that position on return what was at i+1 before.
C28_RemoveShiftsLaterPairs ==
    (rcall.op = "remove" /\ rerr = "none") =>
        LET v == <<rcall.good, rcall.bad>>
            n == Len(before)
        IN  \E k \in 1..n :
                /\ before[k] = v
                /\ \A j \in 1..(k - 1) : before[j] # v
                /\ Len(pairs) = n - 1
                /\ \A i \in 0..(k - 2) :
                       /\ good(pairs, i) = good(before, i)
                       /\ bad(pairs, i) = bad(before, i)
                /\ \A i \in (k - 1)..(n - 2) :
                       /\ good(pairs, i) = good(before, i + 1)
                       /\ bad(pairs, i) = bad(before, i + 1)

\* the value removed was held first and last, with another pair between
C28_Witness ==
    /\ rcall.op = "remove"
    /\ rerr = "none"
    /\ Len(before) = 3
    /\ before[1] = <<rcall.good, rcall.bad>>
    /\ before[3] = before[1]
    /\ before[2] # before[1]
    /\ pairs = <<before[2], before[3]>>

(* ------------------------------ C21 ----------------------------------- *)
\* the states in which the runs of aut from the states S on the word w end
RECURSIVE After(_, _, _)
After(aut, S, w) ==
    IF w = <<>> THEN S
    ELSE After(aut,
               {t[2] : t \in {u \in aut.transitions : u[1] \in S /\ u[3] = Head(w)}},
               Tail(w))

\* some run of aut on the finite word w ends in an accepting state
FiniteAccepts(aut, w) == After(aut, aut.initial, w) \cap aut.accepting # {}

\* C21: is_accepted(word) of an NFA or DFA returns true if and only if some
\* run from an initial state that consumes the whole word ends in an
\* accepting state.
C21_FiniteWordVerdict ==
    (fcall.op = "is_accepted" /\ dfa.class \in {"NFA", "DFA"}) =>
        fret = IF FiniteAccepts(dfa, fcall.word) THEN "True" ELSE "False"

(* ------------------------------ C22 ----------------------------------- *)
\* a run on prefix suffix^omega is followed through the nodes <<q, i>>:
\* it is in state q and reads suffix[i] next
NodeSucc(aut, suffix, N) ==
    UNION {{<<t[2], (n[2] % Len(suffix)) + 1>> :
               t \in {u \in aut.transitions : u[1] = n[1] /\ u[3] = suffix[n[2]]}} :
           n \in N}

RECURSIVE NodeReach(_, _, _)
NodeReach(aut, suffix, N) ==
    IF NodeSucc(aut, suffix, N) \subseteq N THEN N
    ELSE NodeReach(aut, suffix, N \cup NodeSucc(aut, suffix, N))

\* some run of aut on prefix suffix^omega visits an accepting state
\* infinitely often: an accepting node on a cycle is reached
BuchiAccepts(aut, prefix, suffix) ==
    \E n \in NodeReach(aut, suffix, After(aut, aut.initial, prefix) \X {1}) :
        /\ n[1] \in aut.accepting
        /\ n \in NodeReach(aut, suffix, NodeSucc(aut, suffix, {n}))

\* C22: is_accepted(prefix, suffix) of a Buchi automaton returns true if
\* and only if some run on the word prefix suffix^omega visits the
\* accepting set infinitely often; it never returns without a verdict.
C22_OmegaWordVerdict ==
    (fcall.op = "is_accepted" /\ dfa.class = "BuchiAutomaton") =>
        fret = IF BuchiAccepts(dfa, fcall.word, fcall.suffix) THEN "True" ELSE "False"

(* ------------------------------ C23 ----------------------------------- *)
\* the call made was one of those declared and not written
CalledUnwritten ==
    \/ fcall.op \in {"nfa2dfa", "ba2dra", "ba2ltl", "sync_prod"}
    \/ /\ fcall.op = "is_accepted"
       /\ dfa.class \in {"RabinAutomaton", "DRA", "StreettAutomaton",
                         "MullerAutomaton", "ParityAutomaton"}

\* C23: nfa2dfa, is_accepted of Rabin, Streett, Muller and Parity
\* automata, the product of two Buchi automata reached through sync_prod,
\* ba2dra and ba2ltl end in the not-implemented error on every call: they
\* return no value and leave the automaton as it was.
C23_UnwrittenRaises ==
    CalledUnwritten =>
        /\ ferr = "NotImplementedError"
        /\ fret = NoRet
        /\ dfa = fbefore.dfa

\* nfa2dfa was called on an automaton with transitions
C23_Witness ==
    /\ fcall.op = "nfa2dfa"
    /\ ferr = "NotImplementedError"
    /\ dfa.class = "NFA"
    /\ dfa.transitions # {}
    /\ dfa.accepting # {}

(* ------------------------------ C25 ----------------------------------- *)
\* where the search has a product state: not yet found, waiting in the
\* queue, or expanded
Phase(sq, Q, V) ==
    IF sq \in V THEN "Visited" ELSE IF sq \in Q THEN "Queued" ELSE "Unvisited"

\* C25: during the search every product state moves only along
\* Unvisited -> Queued -> Visited: a state is queued only when it is
\* discovered, an expanded state is never put back in the queue, so each
\* state is expanded at most once; the search stops exactly when no state
\* is queued, and then every product state is Visited.
C25_UnvisitedQueuedVisited ==
    /\ [](pc \in {"loop", "done", "converted"} =>
             /\ queue \cap visited = {}
             /\ queue \cup visited = prodStates
             /\ nexp = Cardinality(visited))
    /\ [](pc \in {"done", "converted"} => queue = {} /\ visited = prodStates)
    /\ [][pc = "loop" =>
             /\ \A sq \in TSStates \X BAStates :
                    <<Phase(sq, queue, visited), Phase(sq, queue', visited')>> \in
                        {<<"Unvisited", "Unvisited">>, <<"Unvisited", "Queued">>,
                         <<"Queued", "Queued">>, <<"Queued", "Visited">>,
                         <<"Visited", "Visited">>}
             /\ \A sq \in queue' \ queue : sq \notin prodStates
             /\ Cardinality(visited' \ visited) <= 1
             /\ (pc' = "done") <=> (queue = {})]_vars

\* a finished search in which an expanded state was found again: three
\* states were expanded, one of them has an edge to itself
C25_Witness ==
    /\ pc = "done"
    /\ nexp >= 3
    /\ \E e \in prodTrans : e[1] = e[2]
    /\ \E e \in prodTrans : e[2] \in prodInit /\ e[1] \notin prodInit

\* the arguments are those of an automaton: initial and accepting states
\* among the states, every guard a letter of the alphabet that is given
TupleWellFormed(a) ==
    /\ a.S.iterable
    /\ AsList(a.S0) \subseteq a.S.val
    /\ AsList(a.Sa) \subseteq a.S.val
    /\ \A t \in a.trans :
           IF a.atomic_proposition_based
           THEN str2singleton(t[3]).set \subseteq a.Sigma_or_AP.val
           ELSE t[3].str /\ t[3].sym \in a.Sigma_or_AP.val

\* the name x with the prefix of the call in front of it
Prefixed(a, x) == IF a.prepend_str = NoPrefix THEN x ELSE a.prepend_str \o x

\* C24: tuple2ba returns a Buchi automaton whose states, initial states,
\* accepting states and transition endpoints are the given ones under the
\* one prefix (so that all of them are states of it), whose transitions are
\* the given triples, and whose alphabet is made of the given symbols, or
\* is the powerset of the given atomic propositions
C24_TupleFactory ==
    (tba # NoTuple /\ TupleWellFormed(targs)) =>
        /\ tba.err = "none"
        /\ tba.ba.states = {Prefixed(targs, x) : x \in targs.S.val}
        /\ tba.ba.initial = {Prefixed(targs, x) : x \in AsList(targs.S0)}
        /\ tba.ba.accepting = {Prefixed(targs, x) : x \in AsList(targs.Sa)}
        /\ tba.ba.initial \subseteq tba.ba.states
        /\ tba.ba.accepting \subseteq tba.ba.states
        /\ tba.ba.transitions =
               {<<Prefixed(targs, t[1]), Prefixed(targs, t[2]),
                  IF targs.atomic_proposition_based
                  THEN Coll(str2singleton(t[3]).set) ELSE t[3]>> : t \in targs.trans}
        /\ \A t \in tba.ba.transitions :
               t[1] \in tba.ba.states /\ t[2] \in tba.ba.states
        /\ IF targs.atomic_proposition_based
           THEN tba.ba.math_set = targs.Sigma_or_AP.val
           ELSE tba.ba.alphabet = {Str(x) : x \in targs.Sigma_or_AP.val}

\* the objects the call in progress has constructed
OwnObjects == {ids.prodts, ids.preimage, ids.prod_ba} \ {0}

====
